---- MODULE Spec2Model ----
(***************************************************************************)
(* Model of the hack-verdict quality-control programs:                     *)
(*   llm_quality_control.py      ContentQualityControl (refinement loop)   *)
(*   quality_control_evaluator.py QualityControlEvaluator (meta-evaluation)*)
(*   education_test_generator.py  generate_test_case                       *)
(* The pipeline executor (verdict's Pipeline.run) is not part of the       *)
(* sources; it is modelled from the specification's section 4.2 and 5.     *)
(*                                                                         *)
(* Python values: a text is a string; an optional value (None or a value)  *)
(* is a set with at most one element, {} being None; a dict with string    *)
(* keys is a function whose domain is its key set.                         *)
(***************************************************************************)
EXTENDS Integers, Sequences, FiniteSets, TLC

(* ------------------------------ bounds -------------------------------- *)
\* largest iteration budget given to ContentQualityControl
MaxIterations == 3
\* largest max_workers handed to a direct run
MaxWorkers == 2
\* number of sibling units in the layer used to exercise parallel execution
NumSiblings == 2

(* ------------------------------ values -------------------------------- *)
None == {}
Some(v) == {v}
TheValue(opt) == CHOOSE v \in opt : TRUE

\* a check `x is None` in place of `not x`
NotText_NoneOnly(opt) == opt = None

\* Python truthiness of an optional text: `not x` holds for None and for ''
NotText(opt) == opt = None \/ opt = Some("")

\* create_pipeline: DiscreteScale(['pass', 'revise'])
QualityLabels == {"pass", "revise"}
\* strings evaluate_content may find under the _choice key of the result map:
\* it takes what is stored there without comparing it with the scale, so the
\* labels of the scale and one string outside it ("maybe") are considered
ResultChoices == QualityLabels \cup {"maybe"}
Explanations == {"e1", "e2"}
\* texts the improvement capability may produce
Texts == {"t1", "t2"}
\* the text handed to improve_content
INITIAL_CONTENT == "c0"

(* ----------------------- result addressing ----------------------------- *)
\* key prefix the executor gives a unit: pipeline name, block, layer index
\* (absent for a unit that is not inside a Layer), unit kind and unit name
UnitPath(pname, layer, kind, name) ==
    IF layer = None
    THEN pname \o "_root.block.unit[" \o kind \o " " \o name \o "]"
    ELSE pname \o "_root.block.layer[" \o ToString(TheValue(layer)) \o "].unit["
               \o kind \o " " \o name \o "]"

EmptyMap == [k \in {} |-> ""]

\* dict.get(key, default)
Get(map, key, default) == IF key \in DOMAIN map THEN map[key] ELSE default

\* dict update: entries of b added to a
Merge(a, b) == [k \in DOMAIN a \cup DOMAIN b |-> IF k \in DOMAIN b THEN b[k] ELSE a[k]]

\* what one unit's execution leaves behind:
\*   ok      - a label and an explanation
\*   missing - the unit failed and no key was written
\*   empty   - the unit failed and its keys hold the empty string
Outcome(kind, choice, explanation) ==
    [kind |-> kind, choice |-> choice, explanation |-> explanation]

UnitOutcomes(labels) ==
    {Outcome("ok", l, e) : l \in labels, e \in Explanations}
        \cup {Outcome("missing", "", ""), Outcome("empty", "", "")}

\* the entries a unit stores in the result map
UnitEntries(path, o) ==
    IF o.kind = "missing" THEN EmptyMap
    ELSE [k \in {path \o "_choice", path \o "_explanation"} |->
            IF k = path \o "_choice" THEN o.choice ELSE o.explanation]

(* ------------------- ContentQualityControl ----------------------------- *)
\* a CategoricalJudgeUnit(name, categories) placed at a layer index (None
\* when the unit is composed into the pipeline without a Layer)
Unit(name, labels, layer) ==
    [name |-> name, kind |-> "CategoricalJudge", labels |-> labels, layer |-> layer]

\* create_pipeline: Pipeline('QualityControl') >> Layer([quality_judge])
QualityControlPipeline ==
    [name |-> "QualityControl",
     stages |-> << {Unit("QualityJudge", QualityLabels, Some(0))} >>]

\* outcome of pipeline.run(..., max_workers=1, graceful=True) as seen by a
\* caller: the call raised, or it returned a result map
RunRaised == [raised |-> TRUE, map |-> EmptyMap]
RunReturned(map) == [raised |-> FALSE, map |-> map]

\* what pipeline.run may hand evaluate_content: a raised call, or a result
\* map with or without the judge's two entries
QualityRuns ==
    {RunRaised} \cup
    {RunReturned(UnitEntries(UnitPath("QualityControl", Some(0),
                                      "CategoricalJudge", "QualityJudge"), o)) :
        o \in UnitOutcomes(ResultChoices)}

\* evaluate_content(content, requirements), given what pipeline.run did
evaluate_content(content, run) ==
    IF run.raised THEN None
    ELSE LET base_path == "QualityControl_root.block.layer[0].unit[CategoricalJudge QualityJudge]"
             verdict == Get(run.map, base_path \o "_choice", "")
             explanation == Get(run.map, base_path \o "_explanation", "")
         IN IF verdict = "" \/ explanation = "" THEN None
            ELSE Some([verdict |-> verdict, explanation |-> explanation,
                       content |-> content])

\* what generate_improved_content can return: the model's text, or None
\* when the call raised
ImprovedContents == {None} \cup {Some(t) : t \in Texts \cup {""}}

(* ------------------- QualityControlEvaluator --------------------------- *)
MetaLabels == {"reliable", "questionable", "failure"}
FailureLabels == {"systematic", "contextual", "random"}

\* a pipeline built without the second `>> Layer([failure_analyzer])`
QCEvaluatorPipeline_SingleStage ==
    [name |-> "QCEvaluator",
     stages |-> << {Unit("MetaJudge", MetaLabels, Some(0))} >>]

\* a pipeline built as Layer([meta_judge, failure_analyzer])
QCEvaluatorPipeline_OneLayer ==
    [name |-> "QCEvaluator",
     stages |-> << {Unit("MetaJudge", MetaLabels, Some(0)),
                    Unit("FailureAnalyzer", FailureLabels, Some(0))} >>]

\* create_evaluation_pipeline:
\* Pipeline('QCEvaluator') >> Layer([meta_judge]) >> Layer([failure_analyzer])
QCEvaluatorPipeline ==
    [name |-> "QCEvaluator",
     stages |-> << {Unit("MetaJudge", MetaLabels, Some(0))},
                   {Unit("FailureAnalyzer", FailureLabels, Some(1))} >>]

\* evaluate_qc_system with FailureAnalyzer looked up in layer[0]
evaluate_qc_system_WrongLayer(run) ==
    IF run.raised THEN None
    ELSE LET base_path == "QCEvaluator_root.block.layer"
             meta_verdict ==
                 Get(run.map, base_path \o "[0].unit[CategoricalJudge MetaJudge]_choice", "")
             meta_explanation ==
                 Get(run.map, base_path \o "[0].unit[CategoricalJudge MetaJudge]_explanation", "")
             failure_type ==
                 Get(run.map, base_path \o "[0].unit[CategoricalJudge FailureAnalyzer]_choice", "")
             failure_explanation ==
                 Get(run.map, base_path \o "[0].unit[CategoricalJudge FailureAnalyzer]_explanation", "")
         IN Some([meta_evaluation |-> [verdict |-> meta_verdict,
                                       explanation |-> meta_explanation],
                  failure_analysis |-> [type |-> failure_type,
                                        explanation |-> failure_explanation]])

\* evaluate_qc_system(...), given what pipeline.run did
evaluate_qc_system(run) ==
    IF run.raised THEN None
    ELSE LET base_path == "QCEvaluator_root.block.layer"
             meta_verdict ==
                 Get(run.map, base_path \o "[0].unit[CategoricalJudge MetaJudge]_choice", "")
             meta_explanation ==
                 Get(run.map, base_path \o "[0].unit[CategoricalJudge MetaJudge]_explanation", "")
             failure_type ==
                 Get(run.map, base_path \o "[1].unit[CategoricalJudge FailureAnalyzer]_choice", "")
             failure_explanation ==
                 Get(run.map, base_path \o "[1].unit[CategoricalJudge FailureAnalyzer]_explanation", "")
         IN Some([meta_evaluation |-> [verdict |-> meta_verdict,
                                       explanation |-> meta_explanation],
                  failure_analysis |-> [type |-> failure_type,
                                        explanation |-> failure_explanation]])

(* ------------------------ generate_test_case --------------------------- *)
GeneratorLabels == {"valid", "invalid"}
Scenario == "scenario"

\* create_test_generation_pipeline: Pipeline('TestGenerator') >> generator
TestGeneratorPipeline ==
    [name |-> "TestGenerator",
     stages |-> << {Unit("Generator", GeneratorLabels, None)} >>]

\* generate_test_case(), given what pipeline.run did
generate_test_case(run) ==
    IF run.raised THEN None
    ELSE LET key_base == "TestGenerator_root.block.unit[CategoricalJudge Generator]"
             explanation == Get(run.map, key_base \o "_explanation", "")
             choice == Get(run.map, key_base \o "_choice", "")
         IN IF explanation # "" /\ choice # ""
            THEN Some([scenario |-> Scenario, reasoning |-> explanation,
                       test_case |-> choice])
            ELSE None

(* ------------------------------ state ---------------------------------- *)
VARIABLES
    max_iterations,   \* self.max_iterations
    iterations,       \* local `iterations` of improve_content
    current_content,  \* local `current_content`
    result,           \* local `result` (None while it holds no dict)
    resultBound,      \* whether local `result` has been assigned
    pc,               \* "while" (line 132), "generate" (line 154), "done"
    exit,             \* line of the return statement taken, 0 while running
    ret,              \* value returned by improve_content
    raisedError,      \* improve_content ended with an exception
    calls,            \* the external calls made so far, in order
    lastRun,          \* what pipeline.run did in the latest evaluation (None before)
    \* one invocation of pipeline.run and of the function that makes it
    entry,            \* the caller: a wrapper function, or "run" for a direct run
    pipeline,         \* the pipeline being run
    graceful,         \* run's graceful argument
    max_workers,      \* run's max_workers argument
    judge,            \* what each unit's evaluation yields in this invocation
    stage,            \* index of the stage being executed (Len + 1 when past the last)
    ustate,           \* per unit: "pending", "running", "done", "failed"
    resultMap,        \* the result map under construction
    runStatus,        \* "idle", "running", "returned", "raised"
    started,          \* the units in the order their execution began
    completed,        \* the units in the order their execution ended
    wrapperDone,      \* the wrapper function has returned
    wrapperResult,    \* the value the wrapper function returned
    context,          \* per started unit: the context its evaluation was given
    invocation,       \* 1 for the first invocation, 2 for a repeated one
    prevOutcome,      \* what the previous invocation's run gave its caller
    prevWrapperResult, \* what the wrapper returned in the previous invocation
    prevFirstDone     \* the unit that ended first in the previous invocation

loopVars == <<max_iterations, iterations, current_content, result, resultBound,
              pc, exit, ret, raisedError, calls, lastRun>>
runVars == <<entry, pipeline, graceful, max_workers, judge, stage, ustate,
             resultMap, runStatus, started, completed, wrapperDone, wrapperResult,
             context, invocation, prevOutcome, prevWrapperResult, prevFirstDone>>
vars == <<loopVars, runVars>>

EvalCall(content, r) ==
    [op |-> "evaluate", content |-> content, feedback |-> "", out |-> r]
GenCall(content, feedback, out) ==
    [op |-> "generate", content |-> content, feedback |-> feedback, out |-> out]

\* no direct pipeline invocation is in progress
RunIdle ==
    /\ entry = "improve_content"
    /\ pipeline = QualityControlPipeline
    /\ graceful = TRUE
    /\ max_workers = 1
    /\ judge = EmptyMap
    /\ stage = 1
    /\ ustate = EmptyMap
    /\ resultMap = EmptyMap
    /\ runStatus = "idle"
    /\ started = << >>
    /\ completed = << >>
    /\ wrapperDone = FALSE
    /\ wrapperResult = None
    /\ context = EmptyMap
    /\ invocation = 1
    /\ prevOutcome = None
    /\ prevWrapperResult = None
    /\ prevFirstDone = None

Init ==
    /\ max_iterations \in (0 - 1) .. MaxIterations
    /\ iterations = 0
    /\ current_content = INITIAL_CONTENT
    /\ result = None
    /\ resultBound = FALSE
    /\ pc = "while"
    /\ exit = 0
    /\ ret = None
    /\ raisedError = FALSE
    /\ calls = << >>
    /\ lastRun = None
    /\ RunIdle

\* an inclusive loop bound
LoopContinues_Inclusive(it, max) == it <= max

\* the loop condition of line 132
LoopContinues(it, max) == it < max

\* a comparison against a label the scale does not contain
IsPass_WrongCase(verdict) == verdict = "Pass"

\* a check for "not revise" in place of "is pass"
IsPass_NotRevise(verdict) == verdict # "revise"

\* line 148
IsPass(verdict) == verdict = "pass"

\* an evaluation cycle that goes round the loop again (`continue`) when the
\* evaluation gave no result, instead of returning None
Evaluate_RetriesOnFailure ==
    /\ pc = "while"
    /\ LoopContinues(iterations, max_iterations)
    /\ iterations' = iterations + 1
    /\ \E run \in QualityRuns :
         LET r == evaluate_content(current_content, run) IN
         /\ result' = r
         /\ resultBound' = TRUE
         /\ lastRun' = Some(run)
         /\ calls' = Append(calls, EvalCall(current_content, r))
         /\ IF r = None
            THEN /\ pc' = "while" /\ exit' = exit /\ ret' = ret
            ELSE IF IsPass(TheValue(r).verdict)
            THEN /\ pc' = "done" /\ exit' = 150 /\ ret' = r
            ELSE /\ pc' = "generate" /\ exit' = exit /\ ret' = ret
    /\ UNCHANGED <<max_iterations, current_content, raisedError>>
    /\ UNCHANGED runVars

\* lines 132-150: one evaluation cycle up to the pass check
Evaluate ==
    /\ pc = "while"
    /\ LoopContinues(iterations, max_iterations)
    /\ iterations' = iterations + 1
    /\ \E run \in QualityRuns :
         LET r == evaluate_content(current_content, run) IN
         /\ result' = r
         /\ resultBound' = TRUE
         /\ lastRun' = Some(run)
         /\ calls' = Append(calls, EvalCall(current_content, r))
         /\ IF r = None
            THEN /\ pc' = "done" /\ exit' = 141 /\ ret' = None
            ELSE IF IsPass(TheValue(r).verdict)
            THEN /\ pc' = "done" /\ exit' = 150 /\ ret' = r
            ELSE /\ pc' = "generate" /\ exit' = exit /\ ret' = ret
    /\ UNCHANGED <<max_iterations, current_content, raisedError>>
    /\ UNCHANGED runVars

\* a regeneration that forgets line 166 (current_content = improved_content)
Regenerate_KeepsContent ==
    /\ pc = "generate"
    /\ \E improved_content \in ImprovedContents :
         /\ calls' = Append(calls, GenCall(current_content,
                                           TheValue(result).explanation,
                                           improved_content))
         /\ IF NotText(improved_content)
            THEN /\ pc' = "done" /\ exit' = 161 /\ ret' = None
            ELSE /\ pc' = "while" /\ exit' = exit /\ ret' = ret
    /\ UNCHANGED <<max_iterations, iterations, current_content, result,
                   resultBound, raisedError, lastRun>>
    /\ UNCHANGED runVars

\* a regeneration that keeps sending the feedback of the first evaluation
Regenerate_StaleFeedback ==
    /\ pc = "generate"
    /\ \E improved_content \in ImprovedContents :
         /\ calls' = Append(calls, GenCall(current_content,
                                           TheValue(calls[1].out).explanation,
                                           improved_content))
         /\ IF NotText(improved_content)
            THEN /\ pc' = "done" /\ exit' = 161 /\ ret' = None
                 /\ current_content' = current_content
            ELSE /\ pc' = "while" /\ exit' = exit /\ ret' = ret
                 /\ current_content' = TheValue(improved_content)
    /\ UNCHANGED <<max_iterations, iterations, result, resultBound, raisedError,
                   lastRun>>
    /\ UNCHANGED runVars

\* lines 152-166: regeneration from the feedback of the evaluation just made
Regenerate ==
    /\ pc = "generate"
    /\ \E improved_content \in ImprovedContents :
         /\ calls' = Append(calls, GenCall(current_content,
                                           TheValue(result).explanation,
                                           improved_content))
         /\ IF NotText(improved_content)
            THEN /\ pc' = "done" /\ exit' = 161 /\ ret' = None
                 /\ current_content' = current_content
            ELSE /\ pc' = "while" /\ exit' = exit /\ ret' = ret
                 /\ current_content' = TheValue(improved_content)
    /\ UNCHANGED <<max_iterations, iterations, result, resultBound, raisedError,
                   lastRun>>
    /\ UNCHANGED runVars

\* an exit test that is off by one against the loop condition
LoopExit_OffByOne ==
    /\ pc = "while"
    /\ iterations > max_iterations
    /\ pc' = "done"
    /\ exit' = 169
    /\ IF resultBound
       THEN ret' = result /\ raisedError' = FALSE
       ELSE ret' = None /\ raisedError' = TRUE
    /\ UNCHANGED <<max_iterations, iterations, current_content, result,
                   resultBound, calls, lastRun>>
    /\ UNCHANGED runVars

\* an exit that puts the latest regenerated content into the result
LoopExit_ReturnsLatestContent ==
    /\ pc = "while"
    /\ ~LoopContinues(iterations, max_iterations)
    /\ pc' = "done"
    /\ exit' = 169
    /\ IF resultBound
       THEN /\ ret' = Some([TheValue(result) EXCEPT !.content = current_content])
            /\ raisedError' = FALSE
       ELSE ret' = None /\ raisedError' = TRUE
    /\ UNCHANGED <<max_iterations, iterations, current_content, result,
                   resultBound, calls, lastRun>>
    /\ UNCHANGED runVars

\* an exit after `result = None` was added before the loop
LoopExit_ReturnsNone ==
    /\ pc = "while"
    /\ ~LoopContinues(iterations, max_iterations)
    /\ pc' = "done"
    /\ exit' = 169
    /\ ret' = result
    /\ raisedError' = FALSE
    /\ UNCHANGED <<max_iterations, iterations, current_content, result,
                   resultBound, calls, lastRun>>
    /\ UNCHANGED runVars

\* lines 132, 168-169: the loop condition fails; `return result`, which
\* raises UnboundLocalError when the loop body never ran
LoopExit ==
    /\ pc = "while"
    /\ ~LoopContinues(iterations, max_iterations)
    /\ pc' = "done"
    /\ exit' = 169
    /\ IF resultBound
       THEN ret' = result /\ raisedError' = FALSE
       ELSE ret' = None /\ raisedError' = TRUE
    /\ UNCHANGED <<max_iterations, iterations, current_content, result,
                   resultBound, calls, lastRun>>
    /\ UNCHANGED runVars

Next == Evaluate \/ Regenerate \/ LoopExit

Spec == Init /\ [][Next]_vars

\* improve_content runs to its end: every call it makes returns, so a step
\* that can be taken is taken
SpecFair == Spec /\ WF_vars(Next)

(* -------------------- one invocation of pipeline.run ------------------- *)
SiblingLabels == {"yes"}

\* a pipeline whose first stage is a layer of NumSiblings units, followed by
\* a one-unit layer
SiblingsPipeline ==
    [name |-> "Siblings",
     stages |-> << {Unit("S" \o ToString(i), SiblingLabels, Some(0)) : i \in 1..NumSiblings},
                   {Unit("Last", SiblingLabels, Some(1))} >>]

Pipelines == {QualityControlPipeline, QCEvaluatorPipeline, TestGeneratorPipeline,
              SiblingsPipeline}

Units(p) == UNION {p.stages[i] : i \in 1..Len(p.stages)}
UnitNames(p) == {u.name : u \in Units(p)}
StageNames(p, i) == {u.name : u \in p.stages[i]}
UnitNamed(p, n) == CHOOSE u \in Units(p) : u.name = n
PathOf(p, n) ==
    LET u == UnitNamed(p, n) IN UnitPath(p.name, u.layer, u.kind, u.name)

\* the judges of one invocation: every unit yields a label of its own scale
\* with an explanation, or fails
Judges(p) ==
    LET outcomes == UNION {UnitOutcomes(u.labels) : u \in Units(p)}
    IN {j \in [UnitNames(p) -> outcomes] :
           \A u \in Units(p) : j[u.name] \in UnitOutcomes(u.labels)}

\* a run call that leaves graceful at False
RunArgs_NotGraceful(e) == [max_workers |-> 1, graceful |-> FALSE]

\* the arguments the three functions pass to pipeline.run
RunArgs(e) == [max_workers |-> 1, graceful |-> TRUE]

\* the pipeline each function runs
PipelineOf(e) ==
    CASE e = "evaluate_content" -> QualityControlPipeline
      [] e = "generate_test_case" -> TestGeneratorPipeline
      [] e = "evaluate_qc_system" -> QCEvaluatorPipeline

Wrappers == {"evaluate_content", "generate_test_case", "evaluate_qc_system"}

\* the refinement loop is not running
LoopIdle ==
    /\ max_iterations = 3
    /\ iterations = 0
    /\ current_content = INITIAL_CONTENT
    /\ result = None
    /\ resultBound = FALSE
    /\ pc = "idle"
    /\ exit = 0
    /\ ret = None
    /\ raisedError = FALSE
    /\ calls = << >>
    /\ lastRun = None

InitRun ==
    /\ LoopIdle
    /\ \/ /\ entry \in Wrappers
          /\ pipeline = PipelineOf(entry)
          /\ graceful = RunArgs(entry).graceful
          /\ max_workers = RunArgs(entry).max_workers
       \/ /\ entry = "run"
          /\ pipeline \in Pipelines
          /\ graceful \in BOOLEAN
          /\ max_workers \in 1..MaxWorkers
    /\ judge \in Judges(pipeline)
    /\ stage = 1
    /\ ustate = [n \in UnitNames(pipeline) |-> "pending"]
    /\ resultMap = EmptyMap
    /\ runStatus = "running"
    /\ started = << >>
    /\ completed = << >>
    /\ wrapperDone = FALSE
    /\ wrapperResult = None
    /\ context = EmptyMap
    /\ invocation = 1
    /\ prevOutcome = None
    /\ prevWrapperResult = None
    /\ prevFirstDone = None

Running == {n \in DOMAIN ustate : ustate[n] = "running"}
Finished(st) == st \in {"done", "failed"}

\* a collector that keeps the output that arrived first and drops the rest
InsertByKey_FirstArrival(map, entries) == IF map = EmptyMap THEN entries ELSE map

\* an insert that replaces the container
InsertByKey_Replace(map, entries) == entries

\* the insert-by-key of a unit's entries into the shared result map
InsertByKey(map, entries) == Merge(map, entries)

\* the InputRecord each pipeline is run on (Schema.of(...))
InputOf(p) ==
    CASE p.name = "QualityControl" ->
            [content |-> INITIAL_CONTENT, requirements |-> "req", content_type |-> "text"]
      [] p.name = "QCEvaluator" ->
            [content |-> "content", qc_assessment |-> "assessment",
             qc_decision |-> "pass", requirements |-> "req"]
      [] p.name = "TestGenerator" -> [scenario |-> Scenario]
      [] OTHER -> [content |-> "content"]

\* a context that also hands on the labels of the preceding stage
ContextFor_WithLabel(p, i, map) ==
    [source |-> InputOf(p),
     previous |->
        [explanation |->
            IF i = 1 THEN EmptyMap
            ELSE [m \in StageNames(p, i - 1) |->
                    Get(map, PathOf(p, m) \o "_choice", "") \o ":" \o
                    Get(map, PathOf(p, m) \o "_explanation", "")]]]

\* the context given to the units of stage i: the InputRecord and the
\* explanations of the units of the immediately preceding stage
ContextFor(p, i, map) ==
    [source |-> InputOf(p),
     previous |->
        [explanation |->
            IF i = 1 THEN EmptyMap
            ELSE [m \in StageNames(p, i - 1) |->
                    Get(map, PathOf(p, m) \o "_explanation", "")]]]

\* a worker takes a pending unit of the current stage
StartUnit(n) ==
    /\ runStatus = "running"
    /\ stage <= Len(pipeline.stages)
    /\ n \in StageNames(pipeline, stage)
    /\ ustate[n] = "pending"
    /\ Cardinality(Running) < max_workers
    /\ ustate' = [ustate EXCEPT ![n] = "running"]
    /\ started' = Append(started, n)
    /\ context' = [m \in DOMAIN context \cup {n} |->
                      IF m = n THEN ContextFor(pipeline, stage, resultMap)
                      ELSE context[m]]
    /\ UNCHANGED <<entry, pipeline, graceful, max_workers, judge, stage, resultMap,
                   runStatus, completed, wrapperDone, wrapperResult,
                   invocation, prevOutcome, prevWrapperResult, prevFirstDone>>
    /\ UNCHANGED loopVars

\* a unit's evaluation ends: its outcome is stored, or, outside graceful
\* mode, its failure ends the run; the last unit of a stage opens the next
\* stage, the last unit of the last stage ends the run
FinishUnit(n) ==
    /\ runStatus = "running"
    /\ n \in DOMAIN ustate
    /\ ustate[n] = "running"
    /\ completed' = Append(completed, n)
    /\ IF judge[n].kind # "ok" /\ ~graceful
       THEN /\ ustate' = [ustate EXCEPT ![n] = "failed"]
            /\ runStatus' = "raised"
            /\ UNCHANGED <<resultMap, stage>>
       ELSE /\ ustate' = [ustate EXCEPT
                             ![n] = IF judge[n].kind = "ok" THEN "done" ELSE "failed"]
            /\ resultMap' = InsertByKey(resultMap,
                                        UnitEntries(PathOf(pipeline, n), judge[n]))
            /\ IF \A m \in StageNames(pipeline, stage) : Finished(ustate'[m])
               THEN /\ stage' = stage + 1
                    /\ runStatus' = IF stage = Len(pipeline.stages)
                                    THEN "returned" ELSE "running"
               ELSE UNCHANGED <<stage, runStatus>>
    /\ UNCHANGED <<entry, pipeline, graceful, max_workers, judge, started,
                   wrapperDone, wrapperResult, context,
                   invocation, prevOutcome, prevWrapperResult, prevFirstDone>>
    /\ UNCHANGED loopVars

\* what the caller of pipeline.run gets
RunOutcome == IF runStatus = "raised" THEN RunRaised ELSE RunReturned(resultMap)

\* the function that called pipeline.run reads the result map and returns
WrapperReturn ==
    /\ entry \in Wrappers
    /\ runStatus \in {"returned", "raised"}
    /\ ~wrapperDone
    /\ wrapperDone' = TRUE
    /\ wrapperResult' =
         CASE entry = "evaluate_content" -> evaluate_content(INITIAL_CONTENT, RunOutcome)
           [] entry = "generate_test_case" -> generate_test_case(RunOutcome)
           [] entry = "evaluate_qc_system" -> evaluate_qc_system(RunOutcome)
    /\ UNCHANGED <<entry, pipeline, graceful, max_workers, judge, stage, ustate,
                   resultMap, runStatus, started, completed, context,
                   invocation, prevOutcome, prevWrapperResult, prevFirstDone>>
    /\ UNCHANGED loopVars

NextRun ==
    \/ \E n \in DOMAIN ustate : StartUnit(n)
    \/ \E n \in DOMAIN ustate : FinishUnit(n)
    \/ WrapperReturn

SpecRun == InitRun /\ [][NextRun]_vars

(* ------------- the same pipeline invoked a second time ----------------- *)
\* the caller invokes the same function (or run) again on the same
\* InputRecord with the same judges: the units and the pipeline are reused,
\* the result map is created afresh
Reinvoke ==
    /\ invocation = 1
    /\ runStatus \in {"returned", "raised"}
    /\ entry \in Wrappers => wrapperDone
    /\ invocation' = 2
    /\ prevOutcome' = Some(RunOutcome)
    /\ prevWrapperResult' = wrapperResult
    /\ prevFirstDone' = IF completed = << >> THEN None ELSE Some(completed[1])
    /\ stage' = 1
    /\ ustate' = [n \in UnitNames(pipeline) |-> "pending"]
    /\ resultMap' = EmptyMap
    /\ runStatus' = "running"
    /\ started' = << >>
    /\ completed' = << >>
    /\ wrapperDone' = FALSE
    /\ wrapperResult' = None
    /\ context' = EmptyMap
    /\ UNCHANGED <<entry, pipeline, graceful, max_workers, judge>>
    /\ UNCHANGED loopVars

\* the invocations that are repeated: every invocation of SpecRun, those of
\* a pipeline with sibling units included, whose units may start and end in
\* another order the second time
InitRerun == InitRun

NextRerun ==
    \/ \E n \in DOMAIN ustate : StartUnit(n)
    \/ \E n \in DOMAIN ustate : FinishUnit(n)
    \/ WrapperReturn
    \/ Reinvoke

SpecRerun == InitRerun /\ [][NextRerun]_vars

(* ------------------- the states of section 4.3 ------------------------- *)
Terminated == pc = "done"
PASSED == pc = "done" /\ exit = 150
EXHAUSTED == pc = "done" /\ exit = 169 /\ ~raisedError
ABORTED == pc = "done" /\ exit \in {141, 161}
REGENERATING == pc = "generate"

IsEval(c) == c.op = "evaluate"
IsGen(c) == c.op = "generate"
Evals == SelectSeq(calls, IsEval)
Gens == SelectSeq(calls, IsGen)

(* ----------------------- refinement loop claims ------------------------ *)
EvalOk(c) == IsEval(c) /\ c.out # None
VerdictOf(c) == TheValue(c.out).verdict
GenOk(c) == IsGen(c) /\ ~NotText(c.out)

\* every evaluation so far returned 'revise'
AlwaysRevise == \A i \in 1..Len(Evals) : EvalOk(Evals[i]) /\ VerdictOf(Evals[i]) = "revise"
\* every regeneration so far produced content
AlwaysImproves == \A i \in 1..Len(Gens) : GenOk(Gens[i])

\* C1: with a judge that always returns 'revise' and an improvement
\* capability that always succeeds, a run with max_iterations = N >= 1 ends
\* in EXHAUSTED after exactly N evaluations and N-1 regenerations, and the
\* improvement capability is never invoked in the cycle whose iteration
\* equals max_iterations.
C1_ExhaustionCounts ==
    (max_iterations >= 1 /\ AlwaysRevise /\ AlwaysImproves) =>
        /\ ~(REGENERATING /\ iterations = max_iterations)
        /\ Terminated =>
             /\ EXHAUSTED
             /\ Len(Evals) = max_iterations
             /\ Len(Gens) = max_iterations - 1

\* C2: if the judge returns 'revise' on the first k evaluations and 'pass'
\* on evaluation k+1, the loop makes exactly k+1 evaluations and k
\* regenerations, is PASSED as soon as the 'pass' verdict arrives (that
\* evaluation is the last call made) and returns that evaluation's result,
\* whose content is the output of the k-th regeneration (the original input
\* when k = 0).
C2_PassEndsLoop ==
    \A n \in 1..Len(Evals) :
        ( /\ EvalOk(Evals[n]) /\ VerdictOf(Evals[n]) = "pass"
          /\ \A i \in 1..(n - 1) : EvalOk(Evals[i]) /\ VerdictOf(Evals[i]) = "revise" )
        => /\ n = Len(Evals)
           /\ Len(Gens) = n - 1
           /\ n <= max_iterations
           /\ IsEval(calls[Len(calls)])
           /\ PASSED
           /\ ret = Evals[n].out
           /\ TheValue(ret).verdict = "pass"
           /\ TheValue(ret).content =
                 (IF n = 1 THEN INITIAL_CONTENT ELSE TheValue(Gens[n - 1].out))

C2_Witness ==
    /\ PASSED
    /\ Len(Evals) = 3 /\ Len(Gens) = 2
    /\ \A i \in 1..2 : VerdictOf(Evals[i]) = "revise"
    /\ TheValue(ret).content = TheValue(Gens[2].out)
    /\ TheValue(ret).content # INITIAL_CONTENT

\* C3: when the evaluation of the cycle with iteration = max_iterations
\* yields 'revise', improve_content ends in EXHAUSTED and returns that last
\* evaluation result, never null and never an exception, whatever the
\* improvement capability does.
C3_ExhaustedNeverNull ==
    ( /\ Terminated
      /\ max_iterations >= 1
      /\ Len(Evals) = max_iterations
      /\ EvalOk(Evals[Len(Evals)])
      /\ VerdictOf(Evals[Len(Evals)]) = "revise" )
    => /\ EXHAUSTED
       /\ ret # None
       /\ ret = Evals[Len(Evals)].out

\* C4: a regeneration that produces no content ends improve_content at
\* once: it is the last call made, the loop is ABORTED by the return of
\* line 161 and the value returned is null.
C4_AbortOnFailedImprovement ==
    \A i \in 1..Len(calls) :
        (IsGen(calls[i]) /\ (calls[i].out = None \/ calls[i].out = Some("")))
        => /\ i = Len(calls)
           /\ ABORTED /\ exit = 161
           /\ ret = None /\ ~raisedError

C4_Witness ==
    /\ ABORTED /\ exit = 161
    /\ Len(Gens) = 2
    /\ Gens[2].out = Some("")
    /\ Len(Evals) = 2

\* C5: the iteration counter starts at 0, changes only by growing by
\* exactly 1 together with one evaluation, equals the number of evaluation
\* cycles made, and stays within 0..max_iterations (for a budget that is
\* not negative), so the evaluations never outnumber max_iterations.
C5_IterationBounded ==
    /\ iterations = 0
    /\ [](/\ 0 <= iterations
          /\ Len(Evals) = iterations
          /\ (max_iterations >= 0 => iterations <= max_iterations))
    /\ [][ \/ (iterations' = iterations /\ Len(Evals') = Len(Evals))
           \/ (iterations' = iterations + 1 /\ Len(Evals') = Len(Evals) + 1) ]_vars

C5_Witness ==
    /\ max_iterations = MaxIterations
    /\ iterations = max_iterations
    /\ Len(Evals) = MaxIterations

\* C6: the first call is an evaluation; every later evaluation directly
\* follows one successful regeneration, which itself directly follows the
\* previous evaluation, and it is run against that regeneration's output;
\* no regeneration follows another regeneration.
C6_RegenerationBetweenEvaluations ==
    /\ (Len(calls) >= 1 => IsEval(calls[1]))
    /\ \A j \in 2..Len(calls) :
         /\ IsEval(calls[j]) =>
              /\ GenOk(calls[j - 1])
              /\ j >= 3 /\ IsEval(calls[j - 2])
              /\ calls[j].content = TheValue(calls[j - 1].out)
         /\ IsGen(calls[j]) => IsEval(calls[j - 1])

C6_Witness ==
    /\ Len(Evals) = 3
    /\ Evals[2].content # Evals[1].content
    /\ Evals[3].content # Evals[2].content

(* ------------------ refinement loop claims, continued ------------------ *)
QualityChoiceKey == "QualityControl_root.block.layer[0].unit[CategoricalJudge QualityJudge]_choice"
QualityExplanationKey == "QualityControl_root.block.layer[0].unit[CategoricalJudge QualityJudge]_explanation"

\* the label and the explanation the judge gave in the latest evaluation
\* ('' when the run raised or the key is missing)
JudgeVerdict ==
    IF lastRun = None \/ TheValue(lastRun).raised THEN ""
    ELSE Get(TheValue(lastRun).map, QualityChoiceKey, "")
JudgeExplanation ==
    IF lastRun = None \/ TheValue(lastRun).raised THEN ""
    ELSE Get(TheValue(lastRun).map, QualityExplanationKey, "")

GoodGens == SelectSeq(calls, GenOk)

\* C15: every regeneration call directly follows an evaluation that gave a
\* result, and its arguments are the content that evaluation was run on and
\* the explanation that evaluation returned; current_content is the output
\* of the latest regeneration that produced non-empty content (the input
\* content while there is none), so an empty or missing output never
\* replaces it.
C15_RegenerationArguments ==
    /\ \A j \in 1..Len(calls) :
         IsGen(calls[j]) =>
            /\ j >= 2
            /\ EvalOk(calls[j - 1])
            /\ calls[j].content = calls[j - 1].content
            /\ calls[j].feedback = TheValue(calls[j - 1].out).explanation
    /\ current_content = (IF Len(GoodGens) = 0 THEN INITIAL_CONTENT
                          ELSE TheValue(GoodGens[Len(GoodGens)].out))

C15_Witness ==
    /\ Len(Gens) = 3
    /\ Gens[2].feedback # Gens[1].feedback
    /\ Gens[2].content # Gens[1].content
    /\ Gens[3].out = Some("")
    /\ current_content = TheValue(Gens[2].out)

\* C16: when the pipeline run of an evaluation raises, or leaves the
\* QualityJudge verdict or explanation missing or empty, improve_content
\* returns null at line 141 right after that evaluation: it is the last call
\* made, no regeneration follows, and no earlier evaluation had failed.
C16_EvaluationFailureEndsLoop ==
    (lastRun # None /\ (JudgeVerdict = "" \/ JudgeExplanation = "")) =>
        /\ Terminated /\ exit = 141
        /\ ret = None /\ ~raisedError
        /\ IsEval(calls[Len(calls)])
        /\ calls[Len(calls)].out = None
        /\ \A i \in 1..(Len(calls) - 1) : IsEval(calls[i]) => calls[i].out # None

C16_Witness ==
    /\ exit = 141
    /\ iterations = 2 /\ max_iterations = 3
    /\ ~TheValue(lastRun).raised
    /\ JudgeVerdict = "" /\ QualityChoiceKey \in DOMAIN TheValue(lastRun).map

\* C17: for max_iterations >= 1, improve_content eventually reaches a
\* terminal state, which is exactly one of PASSED, EXHAUSTED and ABORTED;
\* from a terminal state on no call is made and nothing changes.
C17_Termination ==
    /\ (max_iterations >= 1) => <>Terminated
    /\ []((Terminated /\ max_iterations >= 1) =>
            /\ PASSED \/ EXHAUSTED \/ ABORTED
            /\ ~(PASSED /\ EXHAUSTED) /\ ~(PASSED /\ ABORTED) /\ ~(EXHAUSTED /\ ABORTED))
    /\ [][Terminated => (Terminated' /\ calls' = calls /\ ret' = ret /\ exit' = exit)]_vars

C17_Witness ==
    /\ EXHAUSTED
    /\ max_iterations = MaxIterations
    /\ Len(Evals) = max_iterations

\* C18: a non-null result returned by improve_content is the result of the
\* last evaluation made: its verdict and explanation are those the judge
\* gave in that evaluation and its content is the content that evaluation
\* was run on, also when a later regeneration produced newer content.
C18_ResultFromOneEvaluation ==
    (Terminated /\ ret # None) =>
        /\ Len(Evals) >= 1
        /\ ret = Evals[Len(Evals)].out
        /\ TheValue(ret).content = Evals[Len(Evals)].content
        /\ TheValue(ret).verdict = JudgeVerdict
        /\ TheValue(ret).explanation = JudgeExplanation

C18_Witness ==
    /\ EXHAUSTED
    /\ GenOk(calls[Len(calls)])
    /\ TheValue(calls[Len(calls)].out) # TheValue(ret).content
    /\ TheValue(ret).content # INITIAL_CONTENT

\* C19: improve_content returns a result with verdict 'pass', and is PASSED,
\* only when the judge's verdict in the last evaluation was 'pass'; after any
\* other non-empty verdict ('revise' or a label outside the scale) with an
\* explanation the loop is never PASSED and goes on to the regeneration call.
C19_OnlyPassPasses ==
    /\ (PASSED \/ (Terminated /\ ret # None /\ TheValue(ret).verdict = "pass")) =>
          /\ JudgeVerdict = "pass"
          /\ PASSED
          /\ IsEval(calls[Len(calls)])
    /\ (JudgeVerdict \notin {"", "pass"} /\ JudgeExplanation # "") =>
          /\ ~PASSED
          /\ \/ (pc = "generate" /\ IsEval(calls[Len(calls)]))
             \/ (IsGen(calls[Len(calls)]) /\ calls[Len(calls)].feedback = JudgeExplanation)

C19_Witness ==
    /\ JudgeVerdict = "maybe"
    /\ IsGen(calls[Len(calls)])
    /\ EXHAUSTED
    /\ TheValue(ret).verdict = "maybe"

\* C20: with max_iterations <= 0 improve_content makes no evaluation and no
\* regeneration call, and it ends with an error (`result` was never
\* assigned) without a return value: it is not PASSED, EXHAUSTED or ABORTED.
\* With max_iterations >= 1 that error does not occur.
C20_NonPositiveBudget ==
    /\ (max_iterations <= 0) =>
          /\ calls = << >> /\ iterations = 0 /\ ~resultBound
          /\ Terminated =>
                /\ raisedError /\ ret = None
                /\ ~PASSED /\ ~EXHAUSTED /\ ~ABORTED
    /\ raisedError => max_iterations <= 0

C20_Witness ==
    /\ max_iterations = 0
    /\ Terminated /\ raisedError
    /\ calls = << >>

(* --------------------- pipeline and wrapper claims --------------------- *)
RunOver == runStatus \in {"returned", "raised"}

\* every verdict/label and explanation field of a wrapper's result is filled
AllFilled(e, r) ==
    CASE e = "evaluate_content" -> r.verdict # "" /\ r.explanation # ""
      [] e = "generate_test_case" -> r.reasoning # "" /\ r.test_case # ""
      [] e = "evaluate_qc_system" ->
            /\ r.meta_evaluation.verdict # "" /\ r.meta_evaluation.explanation # ""
            /\ r.failure_analysis.type # "" /\ r.failure_analysis.explanation # ""

\* C7: after a graceful run in which each unit succeeded or had its failure
\* recorded (keys missing or empty), each wrapper returns null or a result
\* all of whose verdict/label and explanation fields are non-empty.
C7_NoPartialOutput ==
    wrapperDone =>
        \/ wrapperResult = None
        \/ AllFilled(entry, TheValue(wrapperResult))

FAChoiceKey == "QCEvaluator_root.block.layer[1].unit[CategoricalJudge FailureAnalyzer]_choice"
FAExplanationKey == "QCEvaluator_root.block.layer[1].unit[CategoricalJudge FailureAnalyzer]_explanation"

\* C8: in every run of the QCEvaluator pipeline in which MetaJudge yields a
\* label (whichever it is), and in every graceful run, FailureAnalyzer is
\* executed; when it yields its label and explanation both are in the
\* result map under its keys and evaluate_qc_system returns them as
\* failure_analysis, for 'reliable' as for the other labels.
C8_StageTwoAlwaysRuns ==
    (pipeline.name = "QCEvaluator" /\ RunOver) =>
        /\ (graceful \/ judge["MetaJudge"].kind = "ok") =>
              /\ "FailureAnalyzer" \in DOMAIN ustate
              /\ Finished(ustate["FailureAnalyzer"])
        /\ runStatus = "returned" =>
              /\ "FailureAnalyzer" \in DOMAIN judge
              /\ judge["FailureAnalyzer"].kind = "ok" =>
                    /\ FAChoiceKey \in DOMAIN resultMap
                    /\ FAExplanationKey \in DOMAIN resultMap
                    /\ resultMap[FAChoiceKey] = judge["FailureAnalyzer"].choice
                    /\ resultMap[FAExplanationKey] = judge["FailureAnalyzer"].explanation
                    /\ (entry = "evaluate_qc_system" /\ wrapperDone) =>
                          /\ wrapperResult # None
                          /\ TheValue(wrapperResult).failure_analysis =
                                [type |-> judge["FailureAnalyzer"].choice,
                                 explanation |-> judge["FailureAnalyzer"].explanation]

C8_Witness ==
    /\ entry = "evaluate_qc_system" /\ wrapperDone
    /\ judge["MetaJudge"].kind = "ok" /\ judge["MetaJudge"].choice = "reliable"
    /\ TheValue(wrapperResult).meta_evaluation.verdict = "reliable"
    /\ TheValue(wrapperResult).failure_analysis.type = "systematic"
    /\ TheValue(wrapperResult).failure_analysis.explanation = "e2"

UnitFailed == \E n \in DOMAIN ustate : ustate[n] = "failed"
LaterStagesUntouched ==
    \A i \in (stage + 1)..Len(pipeline.stages) :
        \A m \in StageNames(pipeline, i) : ustate[m] = "pending"

\* C9: the three functions run their pipeline in graceful mode. In graceful
\* mode a failing unit never ends the run: the run can always go on until it
\* returns, every unit of every stage is executed, and a failed unit leaves
\* no label and no explanation under its keys. Outside graceful mode the
\* first failing unit ends the run with the failure raised: no unit of a
\* later stage is started and the caller gets no result map.
C9_GracefulMode ==
    /\ entry \in Wrappers => graceful
    /\ graceful =>
          /\ runStatus # "raised"
          /\ runStatus = "running" =>
                \E n \in DOMAIN ustate : ENABLED StartUnit(n) \/ ENABLED FinishUnit(n)
          /\ runStatus = "returned" =>
                \A n \in DOMAIN ustate :
                    /\ Finished(ustate[n])
                    /\ judge[n].kind # "ok" =>
                          /\ ustate[n] = "failed"
                          /\ Get(resultMap, PathOf(pipeline, n) \o "_choice", "") = ""
                          /\ Get(resultMap, PathOf(pipeline, n) \o "_explanation", "") = ""
    /\ (~graceful /\ UnitFailed) =>
          /\ runStatus = "raised"
          /\ RunOutcome = RunRaised
          /\ LaterStagesUntouched
          /\ Cardinality({n \in DOMAIN ustate : ustate[n] = "failed"}) = 1

C9_Witness ==
    /\ entry = "evaluate_qc_system" /\ wrapperDone
    /\ judge["MetaJudge"].kind # "ok"
    /\ ustate["MetaJudge"] = "failed"
    /\ ustate["FailureAnalyzer"] = "done"
    /\ FAChoiceKey \in DOMAIN resultMap

KeysOf(n) == {PathOf(pipeline, n) \o "_choice", PathOf(pipeline, n) \o "_explanation"}
Stored(n) == Finished(ustate[n]) /\ judge[n].kind # "missing" /\ runStatus # "raised"

\* C10: whatever max_workers is and in whatever order sibling units start
\* and end, the result map holds, for every unit that has ended and stored
\* its output, exactly the pair of keys of that unit with the label and the
\* explanation that unit produced, and nothing else: no insert is lost or
\* overwritten, so the map of a finished run is a function of the units'
\* outputs alone.
C10_KeyedResults ==
    runStatus \in {"running", "returned"} =>
        /\ DOMAIN resultMap = UNION {KeysOf(n) : n \in {m \in DOMAIN ustate : Stored(m)}}
        /\ Cardinality(DOMAIN resultMap) =
              2 * Cardinality({m \in DOMAIN ustate : Stored(m)})
        /\ \A n \in DOMAIN ustate : Stored(n) =>
              /\ resultMap[PathOf(pipeline, n) \o "_choice"] = judge[n].choice
              /\ resultMap[PathOf(pipeline, n) \o "_explanation"] = judge[n].explanation

C10_Witness ==
    /\ pipeline.name = "Siblings" /\ runStatus = "returned"
    /\ max_workers >= 2
    /\ started[1] = "S1" /\ started[2] = "S2"
    /\ completed[1] = "S2" /\ completed[2] = "S1"
    /\ judge["S1"].kind = "ok" /\ judge["S2"].kind = "ok"
    /\ judge["S1"].explanation # judge["S2"].explanation
    /\ Cardinality(DOMAIN resultMap) = 2 * Cardinality(DOMAIN ustate)

StageOf(n) == CHOOSE i \in 1..Len(pipeline.stages) : n \in StageNames(pipeline, i)

\* C11: a unit of a stage is started only when every unit of every earlier
\* stage has ended (with its output or with its failure recorded); units are
\* started stage by stage in the declared order; in the QCEvaluator pipeline
\* FailureAnalyzer is started only after MetaJudge has ended.
C11_StageBarrier ==
    /\ \A n \in DOMAIN ustate : \A m \in DOMAIN ustate :
          (StageOf(n) < StageOf(m) /\ ustate[m] # "pending") => Finished(ustate[n])
    /\ \A a \in 1..Len(started) : \A b \in a..Len(started) :
          StageOf(started[a]) <= StageOf(started[b])
    /\ pipeline.name = "QCEvaluator" =>
          /\ {"MetaJudge", "FailureAnalyzer"} \subseteq DOMAIN ustate
          /\ ustate["FailureAnalyzer"] # "pending" => Finished(ustate["MetaJudge"])

C11_Witness ==
    /\ pipeline.name = "Siblings" /\ max_workers >= 2
    /\ Len(started) >= 1 /\ Len(completed) >= 1
    /\ started[1] = "S1" /\ completed[1] = "S2"
    /\ ustate["Last"] = "running"
    /\ \A n \in StageNames(pipeline, 1) : Finished(ustate[n])

\* the output of unit n as a caller finds it: its label and explanation if
\* it yielded them, the empty string otherwise
ChoiceOf(n) == IF judge[n].kind = "ok" THEN judge[n].choice ELSE ""
ExplanationOf(n) == IF judge[n].kind = "ok" THEN judge[n].explanation ELSE ""

\* C12: the keys of a unit are its path (pipeline name, layer index if any,
\* kind, name) with the suffix _choice or _explanation; within a pipeline
\* the keys of different units and of the two fields are all different;
\* nothing else is ever in the result map; and each of the three functions
\* finds, under the key strings it has written out, exactly the output the
\* executor stored for that unit.
C12_ResultAddressing ==
    /\ LET keys == UNION {KeysOf(n) : n \in DOMAIN ustate}
       IN /\ Cardinality(keys) = 2 * Cardinality(DOMAIN ustate)
          /\ DOMAIN resultMap \subseteq keys
    /\ (wrapperDone /\ entry = "evaluate_content" /\ judge["QualityJudge"].kind = "ok") =>
          wrapperResult = Some([verdict |-> judge["QualityJudge"].choice,
                                explanation |-> judge["QualityJudge"].explanation,
                                content |-> INITIAL_CONTENT])
    /\ (wrapperDone /\ entry = "generate_test_case" /\ judge["Generator"].kind = "ok") =>
          wrapperResult = Some([scenario |-> Scenario,
                                reasoning |-> judge["Generator"].explanation,
                                test_case |-> judge["Generator"].choice])
    /\ (wrapperDone /\ entry = "evaluate_qc_system") =>
          wrapperResult =
             Some([meta_evaluation |-> [verdict |-> ChoiceOf("MetaJudge"),
                                        explanation |-> ExplanationOf("MetaJudge")],
                   failure_analysis |-> [type |-> ChoiceOf("FailureAnalyzer"),
                                         explanation |-> ExplanationOf("FailureAnalyzer")]])

C12_Witness ==
    /\ wrapperDone /\ entry = "evaluate_qc_system"
    /\ judge["MetaJudge"].kind = "ok" /\ judge["FailureAnalyzer"].kind = "ok"
    /\ wrapperResult # None
    /\ TheValue(wrapperResult).meta_evaluation.verdict = "questionable"
    /\ TheValue(wrapperResult).failure_analysis.type = "random"
    /\ Cardinality(DOMAIN resultMap) = 4

InvocationOver == RunOver /\ (entry \in Wrappers => wrapperDone)

\* C13: when the same pipeline is invoked a second time on the same
\* InputRecord with the same judges (each unit yields the same label and
\* explanation in every call), the second invocation starts from a fresh
\* result map with no unit started, and, in whatever order its units start
\* and end, it ends as the first did: the same keys with the same values in
\* the result map (or the same failure) and the same value returned by the
\* function that made the run.
C13_RepeatedInvocation ==
    /\ (invocation = 2 /\ started = << >>) =>
          /\ resultMap = EmptyMap /\ stage = 1 /\ context = EmptyMap
          /\ \A n \in DOMAIN ustate : ustate[n] = "pending"
          /\ ~wrapperDone /\ wrapperResult = None
    /\ (invocation = 2 /\ InvocationOver) =>
          /\ prevOutcome = Some(RunOutcome)
          /\ DOMAIN TheValue(prevOutcome).map = DOMAIN RunOutcome.map
          /\ \A k \in DOMAIN RunOutcome.map :
                TheValue(prevOutcome).map[k] = RunOutcome.map[k]
          /\ prevWrapperResult = wrapperResult

\* a pipeline with sibling units run twice, the siblings ending in one order
\* the first time and in the other order the second time
C13_Witness ==
    /\ invocation = 2 /\ InvocationOver
    /\ pipeline.name = "Siblings" /\ max_workers >= 2
    /\ runStatus = "returned"
    /\ prevFirstDone = Some("S2") /\ completed[1] = "S1"
    /\ judge["S1"].kind = "ok" /\ judge["S2"].kind = "ok"
    /\ judge["S1"].explanation # judge["S2"].explanation
    /\ Cardinality(DOMAIN resultMap) = 2 * Cardinality(DOMAIN ustate)

\* what the preceding stage's units left as explanation ('' for a unit that
\* failed)
PrecedingExplanations(n) ==
    IF StageOf(n) = 1 THEN EmptyMap
    ELSE [m \in StageNames(pipeline, StageOf(n) - 1) |-> ExplanationOf(m)]

\* C14: the context a unit is given consists of the InputRecord and the
\* explanations of the units of the immediately preceding stage, and of
\* nothing else: it is the same whatever labels the preceding stage gave.
\* FailureAnalyzer's context holds the InputRecord and MetaJudge's
\* explanation.
C14_ExplanationOnlyChannel ==
    /\ \A n \in DOMAIN context :
          context[n] = [source |-> InputOf(pipeline),
                        previous |-> [explanation |-> PrecedingExplanations(n)]]
    /\ \A n \in DOMAIN ustate : ustate[n] # "pending" => n \in DOMAIN context
    /\ (pipeline.name = "QCEvaluator" /\ "FailureAnalyzer" \in DOMAIN context) =>
          /\ DOMAIN context["FailureAnalyzer"].previous.explanation = {"MetaJudge"}
          /\ context["FailureAnalyzer"].previous.explanation["MetaJudge"]
                = ExplanationOf("MetaJudge")

C14_Witness ==
    /\ pipeline.name = "QCEvaluator"
    /\ "FailureAnalyzer" \in DOMAIN context
    /\ judge["MetaJudge"].kind = "ok" /\ judge["MetaJudge"].choice = "failure"
    /\ context["FailureAnalyzer"].previous.explanation["MetaJudge"] = "e2"
    /\ context["FailureAnalyzer"].source.qc_decision = "pass"
====
